---- MODULE Spec2Model ----
(***************************************************************************)
(* Boot-time memory subsystem of the kernel: the frame allocator built     *)
(* over the firmware memory map (kernel_api/common/src/mem.rs), the        *)
(* memory-type classification and the memory-map fetch / exit-boot-        *)
(* services handshake (kernel_api/common/src/efi.rs).                      *)
(*                                                                         *)
(* Addresses are usize values.  The model keeps them far below 2^52, so    *)
(* neither `physical_address + size * 4096` wraps nor PhysAddr::new        *)
(* rejects an address; those two edges are outside the model.              *)
(***************************************************************************)
EXTENDS Integers, Sequences, FiniteSets, TLC

(***************************************************************************)
(* Bounds of the model.                                                    *)
(***************************************************************************)
\* longest memory-map snapshot (stands for the 1024-entry DESCRIPTORS buffer)
MaxDescriptors == 2
\* largest descriptor size, in 4096-byte units
MaxSize == 2
\* largest allocate_size request, in whole frames (plus a partial frame)
MaxRequestFrames == 2
\* image handles the firmware may hand to the entry point: 1..MaxHandle
MaxHandle == 3
\* map keys the firmware goes through; its memory map at key k has k entries
MaxKey == 4

(***************************************************************************)
(* Program constants.                                                      *)
(***************************************************************************)
\* the literal 4096 of mem.rs (range end, step_by, allocate_size divisor)
PAGE_SIZE == 4096

(***************************************************************************)
(* efi.rs: enum MemoryType, all sixteen variants.                          *)
(***************************************************************************)
MemoryType ==
    { "Reserved", "LoaderCode", "LoaderData", "BootServicesCode",
      "BootServicesData", "RuntimeServicesCode", "RuntimeServicesData",
      "Conventional", "Unusable", "ACPIReclaim", "ACPINVS", "MemoryMappedIO",
      "MemoryMappedIOPortSpace", "PalCode", "PersistentMemory",
      "MaxMemoryType" }

\* a plausible slip: the commented-out BootServicesData arm left enabled
is_usable_with_boot_data(memory_type) ==
    memory_type \in {"BootServicesCode", "BootServicesData", "Conventional"}

\* a plausible slip: only the Conventional arm
is_usable_conventional_only(memory_type) ==
    memory_type = "Conventional"

\* efi.rs: MemoryType::is_usable, a match with two true arms and `_ => false`
is_usable(memory_type) ==
    CASE memory_type = "BootServicesCode" -> TRUE
      [] memory_type = "Conventional" -> TRUE
      [] OTHER -> FALSE

(***************************************************************************)
(* efi.rs: struct MemoryDescriptor (the fields the allocator and the       *)
(* terminator test read).                                                  *)
(***************************************************************************)
\* physical start addresses offered to the model: page-aligned, with a gap,
\* and one that is not page-aligned
Addresses == {0, PAGE_SIZE \div 2, 2 * PAGE_SIZE}


MemoryDescriptor(types) ==
    [ memory_type : types,
      physical_address : Addresses,
      virtual_address : {0},
      size : 0..MaxSize ]

\* The descriptors of multi-descriptor snapshots: every Conventional
\* descriptor, one-page BootServicesCode descriptors, and two Reserved ones,
\* the all-zero terminator and a region that starts at 0 (single-descriptor
\* snapshots carry every type at every address and size).
SnapshotDescriptors ==
    MemoryDescriptor({"Conventional"})
    \cup [ memory_type : {"BootServicesCode"}, physical_address : Addresses,
           virtual_address : {0}, size : {1} ]
    \cup [ memory_type : {"Reserved"}, physical_address : {0},
           virtual_address : {0}, size : {0, MaxSize} ]

\* Option<T>
None == [some |-> FALSE]
Some(v) == [some |-> TRUE, val |-> v]

(***************************************************************************)
(* State.                                                                  *)
(***************************************************************************)
VARIABLES
    memory_map,   \* PageTableFrameAllocator.memory_map: the snapshot slice
    addresses,    \* PageTableFrameAllocator.addresses: the iterator chain's
                  \*   position: idx = descriptors taken from the slice
                  \*   iterator, front = the FlatMap's current inner range
    yielded,      \* history: every Some(frame) allocate_frame has returned,
                  \*   with the index of the descriptor it was stepped from
    ret,          \* history: the last call on the allocator and its result
    GLOBAL_SYSTEM_TABLE, \* efi.rs static: 0 is the null pointer
    DESCRIPTORS,  \* efi.rs static buffer the firmware writes the map into
    pc,           \* position of the thread inside get_memory_map
    image_handle, \* get_memory_map's argument
    locals,       \* get_memory_map's key, mdesc_version and result
    returned,     \* what get_memory_map returned, None until it returns
    fw_map_key,   \* firmware: the key of its current memory map
    fw_boot_services, \* firmware: boot services have not been exited
    fw_calls,     \* history: every firmware entry point invoked, in order
    system_table, \* efi_main's argument: the firmware's system table pointer
    efi_locals,   \* efi_main's locals: loaded_image and base of get_image_base,
                  \*   wait, mapper, frame_allocator, and npt, the address of
                  \*   the duplicated root table (0 until it is made)
    Cr3,          \* the control register: the address of the active root table
    KERNEL_MAP,   \* mem.rs static mut
    reg_log,      \* history: every register_global_system_table call
    kernel_map_writes \* history: how many times KERNEL_MAP was assigned

allocVars == <<memory_map, addresses, yielded, ret>>
bootVars == <<GLOBAL_SYSTEM_TABLE, DESCRIPTORS, pc, image_handle, locals,
              returned, fw_map_key, fw_boot_services, fw_calls>>
mainVars == <<system_table, efi_locals, Cr3, KERNEL_MAP, reg_log,
              kernel_map_writes>>
vars == <<allocVars, bootVars, mainVars>>

\* x86_64 PhysFrame::containing_address: the frame holding addr (align down)
containing_address_identity(addr) == addr

containing_address(addr) == addr - (addr % PAGE_SIZE)

\* mem.rs:81  |u| u.physical_address..(u.physical_address + u.size * 4096)
address_range_inclusive(u) ==
    [start |-> u.physical_address,
     end |-> u.physical_address + u.size * PAGE_SIZE + 1]

address_range(u) ==
    [start |-> u.physical_address,
     end |-> u.physical_address + u.size * PAGE_SIZE]

\* mem.rs:89  |r| r.step_by(4096): the distance between two yielded addresses
step_half == PAGE_SIZE \div 2

step == PAGE_SIZE

\* The iterator chain built by PageTableFrameAllocator::new, before any next()
PageTableFrameAllocator_new(map) ==
    [idx |-> 0, front |-> None]

\* Iterator::next on Map<FlatMap<Map<Filter<Iter>>>>: drain the current inner
\* StepBy<Range>, else pull the next descriptor through filter and map; once
\* the slice iterator is exhausted the chain stays exhausted (FlatMap fuses).
RECURSIVE addresses_next(_, _)
addresses_next(map, it) ==
    IF it.front.some /\ it.front.val.start < it.front.val.end
    THEN [item |-> Some([frame |-> containing_address(it.front.val.start),
                         from |-> it.idx]),
          it |-> [it EXCEPT !.front =
                     Some([start |-> it.front.val.start + step,
                           end |-> it.front.val.end])]]
    ELSE IF it.idx >= Len(map)
    THEN [item |-> None, it |-> [idx |-> it.idx, front |-> None]]
    ELSE LET d == map[it.idx + 1] IN
         IF is_usable(d.memory_type)
         THEN addresses_next(map, [idx |-> it.idx + 1,
                                   front |-> Some(address_range(d))])
         ELSE addresses_next(map, [idx |-> it.idx + 1, front |-> None])

TypeOK ==
    /\ \A i \in DOMAIN memory_map :
          /\ memory_map[i].memory_type \in MemoryType
          /\ memory_map[i].physical_address \in Nat
          /\ memory_map[i].size \in Nat
    /\ addresses.idx \in 0..Len(memory_map)
    /\ yielded \in Seq([frame : Nat, from : Nat])

\* the two snapshots the specification's scenarios name
ScenarioSnapshots ==
    { << [memory_type |-> "Conventional", physical_address |-> 1048576,
          virtual_address |-> 0, size |-> 4],
         [memory_type |-> "Reserved", physical_address |-> 2097152,
          virtual_address |-> 0, size |-> 10] >>,
      << [memory_type |-> "Conventional", physical_address |-> 1048576,
          virtual_address |-> 0, size |-> 10] >> }

\* The snapshots an allocator is built over: one descriptor of any of the
\* sixteen types, or several descriptors in any order (aligned or not,
\* overlapping or not, zero-sized terminators anywhere), or a scenario.
Snapshots ==
    { <<d>> : d \in MemoryDescriptor(MemoryType) }
    \cup UNION { [1..n -> SnapshotDescriptors] : n \in 2..MaxDescriptors }
    \cup ScenarioSnapshots

\* the byte counts callers pass to allocate_size: whole frames, less than a
\* frame, and a frame and a half
RequestSizes ==
    { k * PAGE_SIZE : k \in 0..MaxRequestFrames }
    \cup { PAGE_SIZE \div 2, PAGE_SIZE + PAGE_SIZE \div 2 }

\* efi.rs:542  DESCRIPTORS as initialised: every entry the zero descriptor
ZeroDescriptor ==
    [memory_type |-> "Reserved", physical_address |-> 0,
     virtual_address |-> 0, size |-> 0]

ZeroedBuffer == [i \in 1..MaxDescriptors |-> ZeroDescriptor]

\* the handshake has not been entered: no table, no call, nothing written
BootIdle ==
    /\ GLOBAL_SYSTEM_TABLE = 0
    /\ DESCRIPTORS = ZeroedBuffer
    /\ pc = "idle"
    /\ image_handle = 0
    /\ locals = [key |-> 0, mdesc_version |-> 0, result |-> 0]
    /\ returned = None
    /\ fw_map_key = 1
    /\ fw_boot_services = TRUE
    /\ fw_calls = <<>>

\* the root table the firmware runs on, at a page-aligned address
FIRMWARE_ROOT == 16 * PAGE_SIZE

\* efi_main has not been entered: mem.rs:19 KERNEL_MAP = 0x0, the firmware's
\* root table active, no local initialised
MainIdle ==
    /\ system_table = 0
    /\ efi_locals = [loaded_image |-> 0, base |-> 0, wait |-> TRUE,
                     mapper |-> 0, frame_allocator |-> FALSE, npt |-> 0]
    /\ Cr3 = FIRMWARE_ROOT
    /\ KERNEL_MAP = 0
    /\ reg_log = <<>>
    /\ kernel_map_writes = 0

Init ==
    /\ memory_map \in Snapshots
    /\ addresses = PageTableFrameAllocator_new(memory_map)
    /\ yielded = <<>>
    /\ ret = [op |-> "new", size |-> 0, before |-> 0, value |-> None]
    /\ BootIdle
    /\ MainIdle

\* mem.rs:137  FrameAllocator::allocate_frame
AllocateFrame ==
    LET r == addresses_next(memory_map, addresses) IN
    /\ addresses' = r.it
    /\ yielded' = IF r.item.some THEN Append(yielded, r.item.val) ELSE yielded
    /\ ret' = [op |-> "allocate_frame", size |-> 0, before |-> Len(yielded),
               value |-> IF r.item.some THEN Some(r.item.val.frame) ELSE None]
    /\ UNCHANGED <<memory_map, bootVars, mainVars>>

\* mem.rs:121  let n = size / 4096
frame_count(size) == size \div PAGE_SIZE

\* mem.rs:123-131  for i in 0..n { allocate_frame ... }: the first failing
\* allocate_frame returns None at once; what was consumed stays consumed
RECURSIVE allocate_size_loop(_, _, _, _, _, _)
allocate_size_loop(map, it, i, n, ret_frame, got) ==
    IF i >= n
    THEN [value |-> Some([frame |-> ret_frame, count |-> n]), it |-> it, got |-> got]
    ELSE LET r == addresses_next(map, it) IN
         IF r.item.some
         THEN allocate_size_loop(map, r.it, i + 1, n,
                                 IF i = 0 THEN r.item.val.frame ELSE ret_frame,
                                 Append(got, r.item.val))
         ELSE [value |-> None, it |-> r.it, got |-> got]

\* mem.rs:120  PageTableFrameAllocator::allocate_size
allocate_size(map, it, size) ==
    allocate_size_loop(map, it, 0, frame_count(size), containing_address(0), <<>>)

AllocateSize ==
    \E size \in RequestSizes :
        LET r == allocate_size(memory_map, addresses, size) IN
        /\ addresses' = r.it
        /\ yielded' = yielded \o r.got
        /\ ret' = [op |-> "allocate_size", size |-> size, before |-> Len(yielded),
                   value |-> r.value]
        /\ UNCHANGED <<memory_map, bootVars, mainVars>>

Next == AllocateFrame \/ AllocateSize

Spec == Init /\ [][Next]_vars

(***************************************************************************)
(* efi.rs: get_memory_map, the memory-map fetch and exit-boot-services     *)
(* handshake, and the firmware it talks to.                                *)
(***************************************************************************)
\* firmware status words: 0 is success, an error has the top bit set
EFI_SUCCESS == [error |-> FALSE, code |-> 0]
\* efi.rs:10  5 | (1 << 63)
BUFFER_TOO_SMALL == [error |-> TRUE, code |-> 5]
\* the status exit_boot_services gives for a stale key or a wrong handle
INVALID_PARAMETER == [error |-> TRUE, code |-> 2]

\* the version the firmware reports with its map
FW_DESCRIPTOR_VERSION == 1

\* the firmware's memory map at key k: k one-page regions, page-aligned and
\* disjoint, alternately Conventional and BootServicesData
FirmwareMap(k) ==
    [i \in 1..k |->
        [memory_type |-> IF i % 2 = 1 THEN "Conventional" ELSE "BootServicesData",
         physical_address |-> i * PAGE_SIZE,
         virtual_address |-> 0,
         size |-> 1]]

\* firmware get_memory_map: the map fits the buffer or the call fails with
\* BUFFER_TOO_SMALL and writes neither the buffer nor the key
firmware_get_memory_map(buffer, key) ==
    IF key <= Len(buffer)
    THEN [status |-> EFI_SUCCESS,
          buffer |-> [i \in 1..Len(buffer) |->
                        IF i <= key THEN FirmwareMap(key)[i] ELSE buffer[i]],
          key |-> key,
          version |-> FW_DESCRIPTOR_VERSION]
    ELSE [status |-> BUFFER_TOO_SMALL, buffer |-> buffer, key |-> 0, version |-> 0]

\* firmware exit_boot_services: succeeds for the loaded image's handle and
\* the key of the current map
firmware_exit_boot_services(handle, key, current_key, loaded_handle) ==
    IF handle = loaded_handle /\ key = current_key
    THEN EFI_SUCCESS
    ELSE INVALID_PARAMETER

\* a slip: the assert compiled out or written on the wrong variable
assert_status_unchecked(result) == TRUE

\* efi.rs:568 and 573  assert!(result == 0, ...)
assert_status(result) == result = EFI_SUCCESS

\* a slip: the local `key` not threaded through, its initial 0 passed on
exit_arguments_stale_key(handle, key) == [handle |-> handle, key |-> 0]

\* efi.rs:572  exit_boot_services(image_handle, key)
exit_arguments(handle, key) == [handle |-> handle, key |-> key]

\* a caller with a registered system table invokes get_memory_map(handle)
GetMemoryMapInit ==
    /\ memory_map = <<ZeroDescriptor>>
    /\ addresses = PageTableFrameAllocator_new(memory_map)
    /\ yielded = <<>>
    /\ ret = [op |-> "new", size |-> 0, before |-> 0, value |-> None]
    /\ GLOBAL_SYSTEM_TABLE = 1
    /\ DESCRIPTORS = ZeroedBuffer
    /\ pc = "entry"
    /\ image_handle \in 1..MaxHandle
    /\ locals = [key |-> 0, mdesc_version |-> 0, result |-> EFI_SUCCESS]
    /\ returned = None
    /\ fw_map_key \in 1..MaxKey
    /\ fw_boot_services = TRUE
    /\ fw_calls = <<>>
    /\ MainIdle

\* efi.rs:552-558  load the table pointer, zero the out-parameters
GmmEnter ==
    /\ pc = "entry"
    /\ GLOBAL_SYSTEM_TABLE # 0
    /\ locals' = [key |-> 0, mdesc_version |-> 0, result |-> EFI_SUCCESS]
    /\ pc' = "fetch"
    /\ UNCHANGED <<allocVars, mainVars, GLOBAL_SYSTEM_TABLE, DESCRIPTORS, image_handle,
                   returned, fw_map_key, fw_boot_services, fw_calls>>

\* efi.rs:560-566  the firmware get_memory_map call into DESCRIPTORS
GmmFetch ==
    /\ pc = "fetch"
    /\ LET r == firmware_get_memory_map(DESCRIPTORS, fw_map_key) IN
       /\ DESCRIPTORS' = r.buffer
       /\ locals' = [key |-> IF r.status = EFI_SUCCESS THEN r.key ELSE locals.key,
                     mdesc_version |-> IF r.status = EFI_SUCCESS THEN r.version
                                       ELSE locals.mdesc_version,
                     result |-> r.status]
       /\ fw_calls' = Append(fw_calls,
                             [fn |-> "get_memory_map", handle |-> 0, key |-> 0,
                              status |-> r.status, key_out |-> r.key])
    /\ pc' = "assert_fetch"
    /\ UNCHANGED <<allocVars, mainVars, GLOBAL_SYSTEM_TABLE, image_handle, returned,
                   fw_map_key, fw_boot_services>>

\* efi.rs:568  assert!(result == 0): panic_handler never returns
GmmAssertFetch ==
    /\ pc = "assert_fetch"
    /\ pc' = IF assert_status(locals.result) THEN "exit" ELSE "panic"
    /\ UNCHANGED <<allocVars, mainVars, GLOBAL_SYSTEM_TABLE, DESCRIPTORS, image_handle,
                   locals, returned, fw_map_key, fw_boot_services, fw_calls>>

\* efi.rs:572  the firmware exit_boot_services call
GmmExit ==
    /\ pc = "exit"
    /\ LET a == exit_arguments(image_handle, locals.key)
           status == firmware_exit_boot_services(a.handle, a.key, fw_map_key,
                                                 image_handle)
       IN
       /\ locals' = [locals EXCEPT !.result = status]
       /\ fw_boot_services' = IF status = EFI_SUCCESS THEN FALSE ELSE fw_boot_services
       /\ fw_calls' = Append(fw_calls,
                             [fn |-> "exit_boot_services", handle |-> a.handle,
                              key |-> a.key, status |-> status, key_out |-> 0])
    /\ pc' = "assert_exit"
    /\ UNCHANGED <<allocVars, mainVars, GLOBAL_SYSTEM_TABLE, DESCRIPTORS, image_handle,
                   returned, fw_map_key>>

\* efi.rs:573-575  assert!(result == 0), print over the serial port, return
GmmAssertExitAndReturn ==
    /\ pc = "assert_exit"
    /\ IF assert_status(locals.result)
       THEN /\ returned' = Some([map |-> DESCRIPTORS,
                                 version |-> locals.mdesc_version])
            /\ pc' = "returned"
       ELSE /\ returned' = returned
            /\ pc' = "panic"
    /\ UNCHANGED <<allocVars, mainVars, GLOBAL_SYSTEM_TABLE, DESCRIPTORS, image_handle,
                   locals, fw_map_key, fw_boot_services, fw_calls>>

\* The firmware changes its own memory map (its timers and drivers allocate
\* while boot services run); the key moves on and the map grows.
FirmwareMapChange ==
    /\ pc \in {"entry", "fetch", "assert_fetch", "exit"}
    /\ fw_boot_services
    /\ fw_map_key < MaxKey
    /\ fw_map_key' = fw_map_key + 1
    /\ UNCHANGED <<allocVars, mainVars, GLOBAL_SYSTEM_TABLE, DESCRIPTORS, pc, image_handle,
                   locals, returned, fw_boot_services, fw_calls>>

GetMemoryMapNext ==
    \/ GmmEnter
    \/ GmmFetch
    \/ GmmAssertFetch
    \/ GmmExit
    \/ GmmAssertExitAndReturn
    \/ FirmwareMapChange

SpecGetMemoryMap == GetMemoryMapInit /\ [][GetMemoryMapNext]_vars

(***************************************************************************)
(* main.rs: efi_main, the boot sequence from the firmware's entry call to  *)
(* the page-table switch, with efi.rs register_global_system_table and     *)
(* get_image_base.                                                         *)
(***************************************************************************)
\* distinct system-table pointers callers pass (0 is the null pointer)
MaxTable == 2
\* registration attempts made by callers other than efi_main
MaxAttempts == 2

\* a slip: a plain swap instead of the compare-and-exchange
compare_exchange_swap(current, expected, new) ==
    [ok |-> TRUE, value |-> new, prev |-> current]

\* AtomicPtr::compare_exchange(expected, new, SeqCst, SeqCst): one atomic
\* step; Ok(previous) and the store when the pointer holds `expected`,
\* Err(actual) and no store otherwise
compare_exchange(current, expected, new) ==
    IF current = expected
    THEN [ok |-> TRUE, value |-> new, prev |-> current]
    ELSE [ok |-> FALSE, value |-> current, prev |-> current]

\* efi.rs:517-526  register_global_system_table
register_global_system_table(current, table) ==
    compare_exchange(current, 0, table)

\* the status handle_protocol gives when the handle lacks the protocol
UNSUPPORTED == [error |-> TRUE, code |-> 3]

\* the LoadedImage the firmware keeps for the image, and its image_base
LOADED_IMAGE == 8 * PAGE_SIZE
IMAGE_BASE == 4 * PAGE_SIZE

\* firmware handle_protocol(handle, LOADED_IMAGE_PROTOCOL, &mut interface):
\* on success the interface pointer is written, on failure it is left alone
firmware_handle_protocol(supported, interface) ==
    IF supported
    THEN [status |-> EFI_SUCCESS, interface |-> LOADED_IMAGE]
    ELSE [status |-> UNSUPPORTED, interface |-> interface]

\* efi.rs:631  (*loaded_image).image_base: the outcomes of the read.  Through
\* the pointer the firmware wrote it is the image base; through the null
\* pointer it is undefined: the CPU faults (None) or whatever lies at
\* address 0 is read.
read_image_base(loaded_image) ==
    IF loaded_image = LOADED_IMAGE
    THEN {Some(IMAGE_BASE)}
    ELSE {None, Some(0), Some(PAGE_SIZE)}

\* a slip: the frame rounded down to instead of refused
from_start_address_rounding(addr) == Some(addr - (addr % PAGE_SIZE))

\* x86_64 PhysFrame::from_start_address: Err unless addr is page-aligned
from_start_address(addr) ==
    IF addr % PAGE_SIZE = 0 THEN Some(addr) ELSE None

\* where the local `npt` may lie on efi_main's stack; the last address is
\* not page-aligned (PageTable is declared align(4096), so only a build
\* that breaks the alignment puts it there)
StackAddresses ==
    {32 * PAGE_SIZE, 33 * PAGE_SIZE, 32 * PAGE_SIZE + PAGE_SIZE \div 2}

\* the firmware calls efi_main(image_handle, system_table)
BootInit ==
    /\ memory_map = <<ZeroDescriptor>>
    /\ addresses = PageTableFrameAllocator_new(memory_map)
    /\ yielded = <<>>
    /\ ret = [op |-> "new", size |-> 0, before |-> 0, value |-> None]
    /\ GLOBAL_SYSTEM_TABLE = 0
    /\ DESCRIPTORS = ZeroedBuffer
    /\ pc = "efi_main"
    /\ image_handle \in 1..MaxHandle
    /\ locals = [key |-> 0, mdesc_version |-> 0, result |-> EFI_SUCCESS]
    /\ returned = None
    /\ fw_map_key \in 1..MaxKey
    /\ fw_boot_services = TRUE
    /\ fw_calls = <<>>
    /\ system_table \in 1..MaxTable
    /\ efi_locals = [loaded_image |-> 0, base |-> 0, wait |-> TRUE,
                     mapper |-> 0, frame_allocator |-> FALSE, npt |-> 0]
    /\ Cr3 = FIRMWARE_ROOT
    /\ KERNEL_MAP = 0
    /\ reg_log = <<>>
    /\ kernel_map_writes = 0

\* main.rs:36-39  register_global_system_table(system_table).unwrap()
EfiMainRegister ==
    /\ pc = "efi_main"
    /\ LET r == register_global_system_table(GLOBAL_SYSTEM_TABLE, system_table) IN
       /\ GLOBAL_SYSTEM_TABLE' = r.value
       /\ reg_log' = Append(reg_log,
                            [caller |-> "efi_main", table |-> system_table,
                             before |-> GLOBAL_SYSTEM_TABLE, ok |-> r.ok,
                             after |-> r.value])
       /\ pc' = IF r.ok THEN "get_image_base" ELSE "panic"
    /\ UNCHANGED <<allocVars, DESCRIPTORS, image_handle, locals, returned,
                   fw_map_key, fw_boot_services, fw_calls, system_table,
                   efi_locals, Cr3, KERNEL_MAP, kernel_map_writes>>

\* efi.rs:517-526  another caller's register_global_system_table(table),
\* interleaved with efi_main
OtherRegister ==
    /\ pc \in {"efi_main", "get_image_base", "image_base", "wait"}
    /\ Cardinality({i \in DOMAIN reg_log : reg_log[i].caller = "other"})
          < MaxAttempts
    /\ \E table \in 1..MaxTable :
          LET r == register_global_system_table(GLOBAL_SYSTEM_TABLE, table) IN
          /\ GLOBAL_SYSTEM_TABLE' = r.value
          /\ reg_log' = Append(reg_log,
                               [caller |-> "other", table |-> table,
                                before |-> GLOBAL_SYSTEM_TABLE, ok |-> r.ok,
                                after |-> r.value])
    /\ UNCHANGED <<allocVars, DESCRIPTORS, pc, image_handle, locals, returned,
                   fw_map_key, fw_boot_services, fw_calls, system_table,
                   efi_locals, Cr3, KERNEL_MAP, kernel_map_writes>>

\* efi.rs:618-626  get_image_base: load the table, loaded_image = null, the
\* firmware handle_protocol call
GibHandleProtocol ==
    /\ pc = "get_image_base"
    /\ GLOBAL_SYSTEM_TABLE # 0
    /\ \E supported \in BOOLEAN :
          LET r == firmware_handle_protocol(supported, 0) IN
          /\ efi_locals' = [efi_locals EXCEPT !.loaded_image = r.interface]
          /\ locals' = [locals EXCEPT !.result = r.status]
          /\ fw_calls' = Append(fw_calls,
                                [fn |-> "handle_protocol", handle |-> image_handle,
                                 key |-> 0, status |-> r.status, key_out |-> 0])
    /\ pc' = "image_base"
    /\ UNCHANGED <<allocVars, GLOBAL_SYSTEM_TABLE, DESCRIPTORS, image_handle,
                   returned, fw_map_key, fw_boot_services, system_table, Cr3,
                   KERNEL_MAP, reg_log, kernel_map_writes>>

\* efi.rs:627-631 and main.rs:41-45  a non-zero status is printed over the
\* serial port and nothing else; loaded_image is printed and read through;
\* efi_main prints the base and sets wait
GibReadImageBase ==
    /\ pc = "image_base"
    /\ \E read \in read_image_base(efi_locals.loaded_image) :
          IF read.some
          THEN /\ efi_locals' = [efi_locals EXCEPT !.base = read.val,
                                                   !.wait = TRUE]
               /\ pc' = "wait"
          ELSE /\ efi_locals' = efi_locals
               /\ pc' = "fault"
    /\ UNCHANGED <<allocVars, GLOBAL_SYSTEM_TABLE, DESCRIPTORS, image_handle,
                   locals, returned, fw_map_key, fw_boot_services, fw_calls,
                   system_table, Cr3, KERNEL_MAP, reg_log, kernel_map_writes>>

\* main.rs:46-50  while wait { pause }: one test of the condition
WaitLoop ==
    /\ pc = "wait"
    /\ pc' = IF efi_locals.wait THEN "wait" ELSE "entry"
    /\ UNCHANGED <<allocVars, GLOBAL_SYSTEM_TABLE, DESCRIPTORS, image_handle,
                   locals, returned, fw_map_key, fw_boot_services, fw_calls,
                   mainVars>>

BootNext ==
    \/ EfiMainRegister
    \/ OtherRegister
    \/ GibHandleProtocol
    \/ GibReadImageBase
    \/ WaitLoop

\* efi_main as it is written
SpecBoot == BootInit /\ [][BootNext]_vars

\* efi_main under a scheduler that keeps the one thread running
SpecBootFair == SpecBoot /\ WF_vars(BootNext)

\* Outside the program: a debugger attached to the waiting kernel clears
\* `wait`.  Nothing in efi_main does; the loop of main.rs:46-50 is left only
\* this way.
DebuggerRelease ==
    /\ pc = "wait"
    /\ efi_locals.wait
    /\ efi_locals' = [efi_locals EXCEPT !.wait = FALSE]
    /\ UNCHANGED <<allocVars, bootVars, system_table, Cr3, KERNEL_MAP, reg_log,
                   kernel_map_writes>>

\* main.rs:53-61  bind memory_map; gdt::init and interrupts::init (no state
\* of this model); mem::init: the mapper over the table Cr3 names
\* (mem.rs:21-36)
MemInit ==
    /\ pc = "returned"
    /\ returned.some
    /\ efi_locals' = [efi_locals EXCEPT !.mapper = Cr3]
    /\ pc' = "new_allocator"
    /\ UNCHANGED <<allocVars, GLOBAL_SYSTEM_TABLE, DESCRIPTORS, image_handle,
                   locals, returned, fw_map_key, fw_boot_services, fw_calls,
                   system_table, Cr3, KERNEL_MAP, reg_log, kernel_map_writes>>

\* main.rs:62  PageTableFrameAllocator::new(memory_map) over the snapshot
\* get_memory_map returned
NewFrameAllocator ==
    /\ pc = "new_allocator"
    /\ memory_map' = returned.val.map
    /\ addresses' = PageTableFrameAllocator_new(returned.val.map)
    /\ yielded' = <<>>
    /\ ret' = [op |-> "new", size |-> 0, before |-> 0, value |-> None]
    /\ efi_locals' = [efi_locals EXCEPT !.frame_allocator = TRUE]
    /\ pc' = "clone"
    /\ UNCHANGED <<GLOBAL_SYSTEM_TABLE, DESCRIPTORS, image_handle, locals,
                   returned, fw_map_key, fw_boot_services, fw_calls,
                   system_table, Cr3, KERNEL_MAP, reg_log, kernel_map_writes>>

\* main.rs:64-66  npt = mapper.level_4_table().clone(); the mapper and
\* `table` now name the copy
CloneRootTable ==
    /\ pc = "clone"
    /\ \E address \in StackAddresses :
          efi_locals' = [efi_locals EXCEPT !.npt = address, !.mapper = address]
    /\ pc' = "switch"
    /\ UNCHANGED <<allocVars, GLOBAL_SYSTEM_TABLE, DESCRIPTORS, image_handle,
                   locals, returned, fw_map_key, fw_boot_services, fw_calls,
                   system_table, Cr3, KERNEL_MAP, reg_log, kernel_map_writes>>

\* main.rs:68-73  Cr3::write(PhysFrame::from_start_address(table).expect(..))
WriteCr3 ==
    /\ pc = "switch"
    /\ LET frame == from_start_address(efi_locals.mapper) IN
       IF frame.some
       THEN /\ Cr3' = frame.val
            /\ pc' = "kernel_map"
       ELSE /\ Cr3' = Cr3
            /\ pc' = "panic"
    /\ UNCHANGED <<allocVars, GLOBAL_SYSTEM_TABLE, DESCRIPTORS, image_handle,
                   locals, returned, fw_map_key, fw_boot_services, fw_calls,
                   system_table, efi_locals, KERNEL_MAP, reg_log,
                   kernel_map_writes>>

\* main.rs:74-75  mem::KERNEL_MAP = table as u64, printed over the serial port
WriteKernelMap ==
    /\ pc = "kernel_map"
    /\ KERNEL_MAP' = efi_locals.mapper
    /\ kernel_map_writes' = kernel_map_writes + 1
    /\ pc' = "init_heap"
    /\ UNCHANGED <<allocVars, GLOBAL_SYSTEM_TABLE, DESCRIPTORS, image_handle,
                   locals, returned, fw_map_key, fw_boot_services, fw_calls,
                   system_table, efi_locals, Cr3, reg_log>>

\* main.rs:79  allocator::init_heap(&mut mapper, &mut frame_allocator, ..):
\* the heap draws its frames from the allocator, one allocate_frame each
InitHeapAllocateFrame ==
    /\ pc = "init_heap"
    /\ AllocateFrame

ReleasedNext ==
    \/ BootNext
    \/ DebuggerRelease
    \/ GetMemoryMapNext
    \/ MemInit
    \/ NewFrameAllocator
    \/ CloneRootTable
    \/ WriteCr3
    \/ WriteKernelMap
    \/ InitHeapAllocateFrame

\* efi_main with a debugger that releases the wait loop
SpecBootReleased == BootInit /\ [][ReleasedNext]_vars

(***************************************************************************)
(* Vocabulary of the claims, stated independently of the operators above.  *)
(***************************************************************************)
UsableTypes == {"Conventional", "BootServicesCode"}

OtherThirteenTypes ==
    { "Reserved", "LoaderCode", "LoaderData", "BootServicesData",
      "RuntimeServicesCode", "RuntimeServicesData", "Unusable", "ACPIReclaim",
      "ACPINVS", "MemoryMappedIO", "MemoryMappedIOPortSpace", "PalCode",
      "PersistentMemory" }

RangeEnd(d) == d.physical_address + d.size * 4096

InsideDescriptor(f, d) == d.physical_address <= f /\ f < RangeEnd(d)

\* f is the page holding one of the addresses the descriptor is stepped through
PageOfDescriptor(f, d) ==
    \E k \in 0..(d.size - 1) :
        /\ f <= d.physical_address + k * 4096
        /\ d.physical_address + k * 4096 < f + 4096

IsTerminator(d) ==
    d.physical_address = 0 /\ d.virtual_address = 0 /\ d.size = 0

\* the ranges of the usable descriptors are pairwise disjoint
DisjointUsable(map) ==
    \A i, j \in DOMAIN map :
        (i < j /\ map[i].memory_type \in UsableTypes
               /\ map[j].memory_type \in UsableTypes)
        => \/ map[i].size = 0
           \/ map[j].size = 0
           \/ RangeEnd(map[i]) <= map[j].physical_address
           \/ RangeEnd(map[j]) <= map[i].physical_address

\* every usable descriptor starts on a page boundary
AlignedUsable(map) ==
    \A i \in DOMAIN map :
        map[i].memory_type \in UsableTypes => map[i].physical_address % 4096 = 0

\* The sequence the specification describes: usable descriptors in snapshot
\* order, each stepped by 4096 from its start; rounded down to the page when
\* `rounded`.
RECURSIVE ClaimedFrames(_, _)
ClaimedFrames(map, rounded) ==
    IF map = <<>> THEN <<>>
    ELSE LET d == Head(map)
             mine == IF d.memory_type \in UsableTypes
                     THEN [k \in 1..d.size |->
                             LET a == d.physical_address + (k - 1) * 4096
                             IN IF rounded THEN a - (a % 4096) ELSE a]
                     ELSE <<>>
         IN mine \o ClaimedFrames(Tail(map), rounded)

RECURSIVE UsableBytes(_)
UsableBytes(map) ==
    IF map = <<>> THEN 0
    ELSE (IF Head(map).memory_type \in UsableTypes THEN Head(map).size * 4096 ELSE 0)
         + UsableBytes(Tail(map))

YieldedFrames == [i \in DOMAIN yielded |-> yielded[i].frame]

IsPrefix(s, t) ==
    Len(s) <= Len(t) /\ \A i \in 1..Len(s) : s[i] = t[i]

\* frames the allocator still had when the last call began
FramesLeftBefore == (UsableBytes(memory_map) \div 4096) - ret.before

CeilFrames(size) == (size + 4095) \div 4096

ReturnedNone == ret.op = "allocate_frame" /\ ret.value = None

(***************************************************************************)
(* C1                                                                      *)
(***************************************************************************)
\* C1 (as stated): every frame yielded is a multiple of 4096 and lies inside
\* the range [physical_address, physical_address + size*4096) of some usable
\* descriptor of the snapshot.
C1_FramesInsideUsable ==
    \A i \in DOMAIN yielded :
        /\ yielded[i].frame % 4096 = 0
        /\ \E j \in DOMAIN memory_map :
              /\ memory_map[j].memory_type \in UsableTypes
              /\ InsideDescriptor(yielded[i].frame, memory_map[j])

\* C1 (amended): every frame yielded is a multiple of 4096 and is the page
\* holding an address physical_address + k*4096 (k < size) of some usable
\* descriptor; it lies inside that descriptor's range when the descriptor
\* starts on a page boundary.
C1_FramesArePagesOfUsable ==
    \A i \in DOMAIN yielded :
        /\ yielded[i].frame % 4096 = 0
        /\ \E j \in DOMAIN memory_map :
              /\ memory_map[j].memory_type \in UsableTypes
              /\ PageOfDescriptor(yielded[i].frame, memory_map[j])
              /\ (memory_map[j].physical_address % 4096 = 0
                    => InsideDescriptor(yielded[i].frame, memory_map[j]))

\* frames have been yielded from a descriptor that is page-aligned and from
\* one that is not
C1_Witness ==
    \E i, j \in DOMAIN yielded :
        /\ memory_map[yielded[i].from].physical_address % 4096 = 0
        /\ memory_map[yielded[j].from].physical_address % 4096 # 0

(***************************************************************************)
(* C2                                                                      *)
(***************************************************************************)
\* C2 (as stated): for any snapshot, no frame address is yielded twice.
C2_NoFrameTwice ==
    \A i, j \in DOMAIN yielded :
        i # j => yielded[i].frame # yielded[j].frame

\* C2 (amended): for any snapshot whose usable descriptors cover pairwise
\* disjoint ranges, no frame address is yielded twice.
C2_NoFrameTwiceIfDisjoint ==
    DisjointUsable(memory_map) => C2_NoFrameTwice

\* three or more frames yielded from two descriptors with disjoint ranges
C2_Witness ==
    /\ DisjointUsable(memory_map)
    /\ Len(yielded) >= 3
    /\ \E i, j \in DOMAIN yielded : yielded[i].from # yielded[j].from

(***************************************************************************)
(* C3                                                                      *)
(***************************************************************************)
\* C3 (as stated): the frames produced are, in order, the addresses
\* physical_address + k*4096 of the usable descriptors in snapshot order,
\* with no alignment correction; the sequence is complete when allocate_frame
\* returns None.
C3_SequenceUnrounded ==
    /\ IsPrefix(YieldedFrames, ClaimedFrames(memory_map, FALSE))
    /\ (ReturnedNone => YieldedFrames = ClaimedFrames(memory_map, FALSE))

\* C3 (amended): the same sequence with each address rounded down to its
\* page (containing_address), which is the identity on page-aligned
\* descriptors.
C3_SequenceRounded ==
    /\ IsPrefix(YieldedFrames, ClaimedFrames(memory_map, TRUE))
    /\ (ReturnedNone => YieldedFrames = ClaimedFrames(memory_map, TRUE))

\* the allocator was drained over a snapshot with two usable descriptors, one
\* of them not page-aligned and larger than one page
C3_Witness ==
    /\ ReturnedNone
    /\ \E i, j \in DOMAIN yielded :
          /\ yielded[i].from # yielded[j].from
          /\ memory_map[yielded[i].from].physical_address % 4096 # 0
          /\ memory_map[yielded[i].from].size >= 2

\* the specification's scenario: [Conventional @0x100000 size=4]
\* [Reserved @0x200000 size=10] yields four frames and then None
C3_Scenario ==
    (/\ Len(memory_map) = 2
     /\ memory_map[1].physical_address = 1048576
     /\ ReturnedNone)
    => YieldedFrames = <<1048576, 1052672, 1056768, 1060864>>

(***************************************************************************)
(* C4                                                                      *)
(***************************************************************************)
\* C4: when at least n >= 1 frames remain, allocate_size(n*4096) returns
\* (F, n) with F, F+4096, ..., F+(n-1)*4096 exactly the n frames the call
\* took from the allocator, and leaves the cursor n frames further.  Stated
\* here for snapshots whose usable descriptors are page-aligned and pairwise
\* disjoint only, a special case of the claim.
C4_RegionIsNextFrames ==
    LET n == ret.size \div 4096 IN
    (/\ ret.op = "allocate_size"
     /\ ret.size % 4096 = 0
     /\ n >= 1
     /\ FramesLeftBefore >= n
     /\ AlignedUsable(memory_map)
     /\ DisjointUsable(memory_map))
    => /\ ret.value.some
       /\ ret.value.val.count = n
       /\ Len(yielded) = ret.before + n
       /\ \A k \in 1..n :
             yielded[ret.before + k].frame = ret.value.val.frame + (k - 1) * 4096

\* the specification's scenario: allocate_size(8192) on a fresh allocator over
\* one Conventional descriptor of size 10 returns (descriptor start, 2)
C4_Scenario ==
    (/\ Len(memory_map) = 1
     /\ memory_map[1].size = 10
     /\ ret.op = "allocate_size"
     /\ ret.size = 8192
     /\ ret.before = 0)
    => ret.value = Some([frame |-> memory_map[1].physical_address, count |-> 2])

(***************************************************************************)
(* C5                                                                      *)
(***************************************************************************)
\* C5: a successful allocate_size(size_bytes) consumes exactly
\* ceil(size_bytes/4096) frames and returns the first of them together with
\* that count.
C5_CeilFramesConsumed ==
    (ret.op = "allocate_size" /\ ret.value.some)
    => /\ ret.value.val.count = CeilFrames(ret.size)
       /\ Len(yielded) - ret.before = CeilFrames(ret.size)
       /\ (CeilFrames(ret.size) >= 1
             => ret.value.val.frame = yielded[ret.before + 1].frame)

(***************************************************************************)
(* C6                                                                      *)
(***************************************************************************)
\* C6: with S the total bytes of the usable descriptors, never more than S
\* bytes of frames are issued, and allocate_frame returns None exactly when
\* S bytes had been issued before the call (so also on every later call).
\* "Issued" counts every frame allocate_frame has returned, directly or
\* inside allocate_size.
C6_NoneExactlyWhenExhausted ==
    /\ Len(yielded) * 4096 <= UsableBytes(memory_map)
    /\ (ret.op = "allocate_frame"
          => (ret.value = None <=> ret.before * 4096 = UsableBytes(memory_map)))

\* allocate_frame has returned None after two or more frames were issued
C6_Witness ==
    /\ ReturnedNone
    /\ Len(yielded) >= 2
    /\ Len(yielded) * 4096 = UsableBytes(memory_map)

(***************************************************************************)
(* C7                                                                      *)
(***************************************************************************)
\* C7: an allocate_size request that needs more frames than remain returns
\* None, never a partial (frame, count), and leaves the allocator exhausted:
\* the next allocate_frame returns None.
C7_ShortfallReturnsNone ==
    (ret.op = "allocate_size" /\ CeilFrames(ret.size) > FramesLeftBefore)
    => /\ ret.value = None
       /\ Len(yielded) * 4096 = UsableBytes(memory_map)
       /\ addresses_next(memory_map, addresses).item = None

\* the same for requests that are whole multiples of 4096 (this holds)
C7_WholeFrameShortfall ==
    (ret.op = "allocate_size" /\ ret.size % 4096 = 0
        /\ ret.size \div 4096 > FramesLeftBefore)
    => /\ ret.value = None
       /\ Len(yielded) * 4096 = UsableBytes(memory_map)
       /\ addresses_next(memory_map, addresses).item = None

(***************************************************************************)
(* C8                                                                      *)
(***************************************************************************)
\* C8: is_usable is true for Conventional and BootServicesCode and false for
\* each of the other thirteen region types; seen from outside, the first
\* allocate_frame over a one-descriptor snapshot of non-zero size returns a
\* frame exactly when the descriptor has one of the two usable types.
C8_UsableClassification ==
    /\ \A i \in DOMAIN memory_map :
          LET t == memory_map[i].memory_type IN
          /\ (t \in {"Conventional", "BootServicesCode"} => is_usable(t))
          /\ (t \in OtherThirteenTypes => ~is_usable(t))
    /\ (/\ Len(memory_map) = 1
        /\ memory_map[1].size > 0
        /\ ret.op = "allocate_frame"
        /\ ret.before = 0)
       => (ret.value.some <=> memory_map[1].memory_type \in UsableTypes)

\* allocate_frame found nothing in a non-empty PersistentMemory region
C8_Witness ==
    /\ Len(memory_map) = 1
    /\ memory_map[1].memory_type = "PersistentMemory"
    /\ memory_map[1].size > 0
    /\ ReturnedNone

(***************************************************************************)
(* C9                                                                      *)
(***************************************************************************)
\* C9: no frame is ever stepped from a terminator descriptor
\* (physical_address = 0, virtual_address = 0, size = 0), whatever its type
\* and position; the frames issued all come from the other descriptors.
C9_TerminatorYieldsNothing ==
    /\ \A i \in DOMAIN yielded : ~IsTerminator(memory_map[yielded[i].from])
    /\ Len(yielded) * 4096
         <= UsableBytes(SelectSeq(memory_map, LAMBDA d : ~IsTerminator(d)))

\* the allocator was drained over a snapshot that starts with a terminator of
\* a usable type and goes on with a real region
C9_Witness ==
    /\ Len(memory_map) >= 2
    /\ IsTerminator(memory_map[1])
    /\ memory_map[1].memory_type \in UsableTypes
    /\ ReturnedNone
    /\ Len(yielded) >= 1

(***************************************************************************)
(* C10                                                                     *)
(***************************************************************************)
\* C10: every exit_boot_services call is made with the image handle that was
\* passed to get_memory_map and with the key written by a successful firmware
\* get_memory_map call, and that fetch is the firmware call made immediately
\* before it: the kernel invokes no firmware entry point in between.
C10_ExitUsesFreshKey ==
    \A i \in DOMAIN fw_calls :
        fw_calls[i].fn = "exit_boot_services"
        => /\ i >= 2
           /\ fw_calls[i - 1].fn = "get_memory_map"
           /\ fw_calls[i - 1].status = EFI_SUCCESS
           /\ fw_calls[i].key = fw_calls[i - 1].key_out
           /\ fw_calls[i].handle = image_handle

\* exit_boot_services has been called, with a key other than the first one
C10_Witness ==
    /\ Len(fw_calls) = 2
    /\ fw_calls[2].fn = "exit_boot_services"
    /\ fw_calls[2].key > 1
    /\ fw_calls[2].status = EFI_SUCCESS
    /\ pc = "returned"

(***************************************************************************)
(* Vocabulary of the boot claims, read off the histories.                  *)
(***************************************************************************)
CallsOf(fn) == {i \in DOMAIN fw_calls : fw_calls[i].fn = fn}

CallFailed(i) == fw_calls[i].status.code # 0

\* the frame allocator has been constructed or has handed out a frame
AllocatorInUse == efi_locals.frame_allocator \/ yielded # <<>>

\* the control register still names the root table the firmware set up
NotSwitched == Cr3 = 16 * 4096 /\ KERNEL_MAP = 0

(***************************************************************************)
(* C11                                                                     *)
(***************************************************************************)
\* C11: in every execution of efi_main a successful memory-map fetch
\* precedes every exit_boot_services call, a successful exit_boot_services
\* precedes the construction of the frame allocator and any allocation from
\* it, and no firmware call follows a successful exit_boot_services.
C11_FetchExitAllocateOrder ==
    /\ \A i \in CallsOf("exit_boot_services") :
          \E j \in CallsOf("get_memory_map") : j < i /\ ~CallFailed(j)
    /\ AllocatorInUse =>
          \E i \in CallsOf("exit_boot_services") : ~CallFailed(i)
    /\ \A i \in CallsOf("exit_boot_services") :
          ~CallFailed(i) => i = Len(fw_calls)

\* efi_main has fetched, exited, built the allocator and the heap has taken
\* a frame from it
C11_Witness ==
    /\ pc = "init_heap"
    /\ yielded # <<>>
    /\ CallsOf("get_memory_map") # {}
    /\ CallsOf("exit_boot_services") # {}
    /\ CallsOf("handle_protocol") # {}

(***************************************************************************)
(* C12                                                                     *)
(***************************************************************************)
\* C12: once the firmware get_memory_map call has returned a non-zero status
\* the boot aborts without a retry: the fetch is not repeated,
\* exit_boot_services is never invoked, no snapshot is returned, the frame
\* allocator is not constructed and the page table is not switched.
C12_FetchFailureAborts ==
    \A i \in CallsOf("get_memory_map") :
        CallFailed(i) =>
            /\ CallsOf("get_memory_map") = {i}
            /\ CallsOf("exit_boot_services") = {}
            /\ returned = None
            /\ ~AllocatorInUse
            /\ NotSwitched
            /\ pc \in {"assert_fetch", "panic"}

\* the firmware's map outgrew the buffer, the fetch failed with
\* BUFFER_TOO_SMALL and the boot is in the panic handler
C12_Witness ==
    /\ pc = "panic"
    /\ \E i \in CallsOf("get_memory_map") :
          fw_calls[i].status.code = 5 /\ fw_map_key > Len(DESCRIPTORS)

(***************************************************************************)
(* C13                                                                     *)
(***************************************************************************)
\* C13: once exit_boot_services has returned a non-zero status the boot
\* aborts into the panic state: get_memory_map returns no snapshot,
\* exit_boot_services is not called again, the frame allocator is not
\* constructed and the page table is not switched.
C13_ExitFailureAborts ==
    \A i \in CallsOf("exit_boot_services") :
        CallFailed(i) =>
            /\ returned = None
            /\ CallsOf("exit_boot_services") = {i}
            /\ i = Len(fw_calls)
            /\ ~AllocatorInUse
            /\ NotSwitched
            /\ pc \in {"assert_exit", "panic"}

\* the firmware's map changed between the fetch and the exit, the exit was
\* refused and the boot is in the panic handler
C13_Witness ==
    /\ pc = "panic"
    /\ \E i \in CallsOf("exit_boot_services") :
          CallFailed(i) /\ fw_calls[i].key # fw_map_key

(***************************************************************************)
(* C14                                                                     *)
(***************************************************************************)
\* C14 (as stated): after any firmware entry point has returned a non-zero
\* status, execution is at the check of that status or has stopped (panic,
\* or a fault); it never goes on to a later boot step.
C14_FailedCallIsFatal ==
    \A i \in DOMAIN fw_calls :
        CallFailed(i) =>
            pc \in {"image_base", "assert_fetch", "assert_exit", "panic", "fault"}

(***************************************************************************)
(* C15                                                                     *)
(***************************************************************************)
\* C15: a registration succeeds exactly when the pointer was still unset;
\* an attempt made after a table was registered fails and leaves the stored
\* pointer as it was; of the attempts of any interleaving exactly one
\* succeeded, and its table is the one stored; a failed registration by
\* efi_main leaves efi_main in the panic handler.
C15_RegisteredOnce ==
    /\ \A i \in DOMAIN reg_log : reg_log[i].ok <=> reg_log[i].before = 0
    /\ \A i \in DOMAIN reg_log :
          reg_log[i].before # 0 =>
              ~reg_log[i].ok /\ reg_log[i].after = reg_log[i].before
    /\ reg_log # <<>> =>
          /\ Cardinality({i \in DOMAIN reg_log : reg_log[i].ok}) = 1
          /\ \E i \in DOMAIN reg_log :
                reg_log[i].ok /\ GLOBAL_SYSTEM_TABLE = reg_log[i].table
    /\ reg_log = <<>> => GLOBAL_SYSTEM_TABLE = 0
    /\ \A i \in DOMAIN reg_log :
          (reg_log[i].caller = "efi_main" /\ ~reg_log[i].ok) => pc = "panic"

\* three attempts have interleaved: another caller's succeeded, a second
\* caller's with a different table failed, then efi_main's failed and
\* efi_main is in the panic handler
C15_Witness ==
    /\ Len(reg_log) = 3
    /\ reg_log[1].ok
    /\ reg_log[2].caller = "other" /\ reg_log[2].table # reg_log[1].table
    /\ reg_log[3].caller = "efi_main" /\ ~reg_log[3].ok
    /\ pc = "panic"

C17_Excused ==
    \/ \E i \in DOMAIN reg_log : reg_log[i].caller = "efi_main" /\ ~reg_log[i].ok
    \/ \E i \in DOMAIN fw_calls : CallFailed(i)

\* the fetch, the exit and the page-table switch have been performed
C17_Booted ==
    /\ CallsOf("get_memory_map") # {}
    /\ CallsOf("exit_boot_services") # {}
    /\ efi_locals.npt # 0
    /\ Cr3 = efi_locals.npt

\* C17 (as stated): when efi_main's registration succeeds and every firmware
\* call returns success, the boot eventually performs the memory-map fetch,
\* exit_boot_services and the page-table switch.
C17_EventuallyBoots == <>(C17_Excused \/ C17_Booted)

====
